---- MODULE Spec2Model ----
(***************************************************************************)
(* Project credential handlers of kubesphere/devops                        *)
(* (package projects: Create/Delete/Update/Get/GetCredentials handlers).   *)
(* Each handler is one atomic action: a request is decoded, the caller's   *)
(* role is checked, the remote credential API is called and the local      *)
(* ProjectCredential table is written.  Every step a handler takes is      *)
(* appended to the request's step log, in the order of the code.           *)
(* A second specification, ConcSpec, runs one create and one delete as two *)
(* goroutines that interleave between their remote and store calls.        *)
(***************************************************************************)
EXTENDS Integers, Sequences, FiniteSets, TLC

VARIABLES remote, rows, last, nreq, inflight

vars == <<remote, rows, last, nreq, inflight>>

\* ------------------------------------------------------------------ bounds
MaxRequests == 2

\* ------------------------------------------------------------ input values
Projects == {"p1", "p2"}
Ids == {"c1", "c2"}
\* ids given to credentials created through the handlers; "c2" is the id of
\* the credential that was created in the remote system itself
CreateIds == {"c1"}
Domains == {"", "dev"}
Operators == {"alice", "bob"}
NoId == "<absent>"

ProjectOwner == "owner"
ProjectMaintainer == "maintainer"

\* the project membership table; no credential handler writes it
Membership ==
  [alice |-> [p1 |-> ProjectOwner, p2 |-> ProjectMaintainer],
   bob |-> [p1 |-> "developer", p2 |-> "none"]]

CredentialTypeUsernamePassword == "username_password"
CredentialTypeSsh == "ssh"
CredentialTypeSecretText == "secret_text"
CredentialTypeKubeConfig == "kubeconfig"
CredentialTypes ==
  {CredentialTypeUsernamePassword, CredentialTypeSsh,
   CredentialTypeSecretText, CredentialTypeKubeConfig}
UnsupportedType == "certificate"

StatusOK == 200
StatusBadRequest == 400
StatusForbidden == 403
StatusNotFound == 404
StatusConflict == 409
StatusInternalServerError == 500

\* status codes a failing remote call may carry besides 404
FaultCodes == {503}

\* ------------------------------------------------------------------ errors
NoErr == [src |-> "nil", code |-> 0]
JenkinsErr(c) == [src |-> "jenkins", code |-> c]
DbErr == [src |-> "db", code |-> 0]
ErrNotFound == [src |-> "db.ErrNotFound", code |-> 0]
LocalErr == [src |-> "fmt.Errorf", code |-> 0]

\* stringutils.GetJenkinsStatusCode: the passthrough translator
GetJenkinsStatusCode(err) ==
  IF err.src = "jenkins" THEN err.code ELSE StatusInternalServerError

\* ---------------------------------------------------------------- faults
NoFault == [at |-> "none", code |-> 0]
RemoteFaults(places) == {[at |-> a, code |-> c] : a \in places, c \in FaultCodes}
DbFault == [at |-> "db", code |-> 0]

\* --------------------------------------------------------------- step log
Step(api, err) == [api |-> api, ok |-> err = NoErr, code |-> err.code]
Check(api, ok) == Step(api, IF ok THEN NoErr ELSE LocalErr)

CreateApi(type) ==
  CASE type = CredentialTypeUsernamePassword -> "CreateUsernamePasswordCredentialInFolder"
    [] type = CredentialTypeSsh -> "CreateSshCredentialInFolder"
    [] type = CredentialTypeSecretText -> "CreateSecretTextCredentialInFolder"
    [] type = CredentialTypeKubeConfig -> "CreateKubeconfigCredentialInFolder"

UpdateApi(type) ==
  CASE type = CredentialTypeUsernamePassword -> "UpdateUsernamePasswordCredentialInFolder"
    [] type = CredentialTypeSsh -> "UpdateSshCredentialInFolder"
    [] type = CredentialTypeSecretText -> "UpdateSecretTextCredentialInFolder"
    [] type = CredentialTypeKubeConfig -> "UpdateKubeconfigCredentialInFolder"

CreateApis == {CreateApi(t) : t \in CredentialTypes}
UpdateApis == {UpdateApi(t) : t \in CredentialTypes}
MutateApis == CreateApis \cup UpdateApis \cup {"DeleteCredentialInFolder"}
ReadApis == {"GetCredentialInFolder", "GetCredentialContentInFolder", "GetCredentialsInFolder"}
RemoteApis == MutateApis \cup ReadApis
RowWriteApis == {"InsertInto", "DeleteFrom"}
RowReadApis == {"LoadOne", "Load"}
RowApis == RowWriteApis \cup RowReadApis

\* ------------------------------------------------------------- responses
Error(code) == [kind |-> "error", code |-> code, id |-> ""]
WriteJson(id) == [kind |-> "json", code |-> StatusOK, id |-> id]
Result(rem, rws, resp, calls) ==
  [remote |-> rem, rows |-> rws, resp |-> resp, calls |-> calls]

\* ------------------------------------------------- role check (membership)
\* []string{ProjectOwner, ProjectMaintainer}
AllowedRoles_Developer == {ProjectOwner, ProjectMaintainer, "developer"}

AllowedRoles == {ProjectOwner, ProjectMaintainer}

checkProjectUserInRole(operator, projectId, roles) ==
  Membership[operator][projectId] \in roles

\* --------------------------------------------------- remote credential API
JenkinsDomain(domain) == IF domain = "" THEN "_" ELSE domain

InFolder(rem, domain, id, project) ==
  {c \in rem : c.project = project /\ c.domain = JenkinsDomain(domain) /\ c.id = id}

GetCredentialInFolder(rem, domain, id, project, fault) ==
  LET m == InFolder(rem, domain, id, project) IN
  IF fault.at = "lookup" THEN [cred |-> {}, err |-> JenkinsErr(fault.code)]
  ELSE IF m = {} THEN [cred |-> {}, err |-> JenkinsErr(StatusNotFound)]
  ELSE [cred |-> m, err |-> NoErr]

CreateCredentialInFolder(rem, type, domain, id, project, fault) ==
  IF fault.at = "mutate" THEN [remote |-> rem, id |-> "", err |-> JenkinsErr(fault.code)]
  ELSE IF InFolder(rem, domain, id, project) # {}
    THEN [remote |-> rem, id |-> "", err |-> JenkinsErr(StatusConflict)]
  ELSE [remote |-> rem \cup {[project |-> project, domain |-> JenkinsDomain(domain),
                              id |-> id, type |-> type]},
        id |-> id, err |-> NoErr]

DeleteCredentialInFolder(rem, domain, id, project, fault) ==
  LET m == InFolder(rem, domain, id, project) IN
  IF fault.at = "mutate" THEN [remote |-> rem, id |-> "", err |-> JenkinsErr(fault.code)]
  ELSE IF m = {} THEN [remote |-> rem, id |-> "", err |-> JenkinsErr(StatusNotFound)]
  ELSE [remote |-> rem \ m, id |-> id, err |-> NoErr]

UpdateCredentialInFolder(rem, type, domain, id, project, fault) ==
  LET m == InFolder(rem, domain, id, project) IN
  IF fault.at = "mutate" THEN [remote |-> rem, id |-> "", err |-> JenkinsErr(fault.code)]
  ELSE IF m = {} THEN [remote |-> rem, id |-> "", err |-> JenkinsErr(StatusNotFound)]
  ELSE [remote |-> (rem \ m) \cup {[c EXCEPT !.type = type] : c \in m},
        id |-> id, err |-> NoErr]

\* ------------------------------------------------------ ownership records
NewProjectCredential(projectId, credentialId, domain, creator, now) ==
  [project_id |-> projectId, credential_id |-> credentialId,
   domain |-> IF domain = "" THEN "_" ELSE domain,
   creator |-> creator, create_time |-> now]

\* Db.InsertInto(ProjectCredentialTableName)...Record(projectCredential).Exec()
InsertInto(rws, projectCredential, fault) ==
  IF fault.at = "db" THEN [rows |-> rws, err |-> DbErr]
  ELSE [rows |-> rws \cup {projectCredential}, err |-> NoErr]

\* ------------------------------------------------- CreateCredentialHandler
\* err != nil after mapstructure.Decode(request.Content, ...)
ContentDecodeFailed_Ignored(r) == FALSE

ContentDecodeFailed(r) == ~r.contentOK

\* credential != nil after the lookup: the id has been used
CredentialUsed_Never(got) == FALSE

CredentialUsed(got) == got.cred # {}

\* err != nil after the remote create call
CreateFailed_Never(created) == FALSE

CreateFailed(created) == created.err # NoErr

\* one case of the type switch: the four cases differ only in the payload
\* struct and in the remote create method
CreateCase(rem, rws, r, fault, now, log) ==
  LET log1 == Append(log, Check("mapstructure.Decode", r.contentOK)) IN
  IF ContentDecodeFailed(r) THEN Result(rem, rws, Error(StatusBadRequest), log1)
  ELSE
    LET got == GetCredentialInFolder(rem, r.domain, r.contentId, r.project, fault)
        log2 == Append(log1, Step("GetCredentialInFolder", got.err))
    IN
    IF CredentialUsed(got) THEN Result(rem, rws, Error(StatusConflict), log2)
    ELSE IF got.err # NoErr /\ GetJenkinsStatusCode(got.err) # StatusNotFound
      THEN Result(rem, rws, Error(StatusBadRequest), log2)
    ELSE
      LET created == CreateCredentialInFolder(rem, r.type, r.domain, r.contentId, r.project, fault)
          log3 == Append(log2, Step(CreateApi(r.type), created.err))
      IN
      IF CreateFailed(created)
        THEN Result(created.remote, rws, Error(GetJenkinsStatusCode(created.err)), log3)
      ELSE
        LET projectCredential ==
              NewProjectCredential(r.project, r.contentId, r.domain, r.operator, now)
            ins == InsertInto(rws, projectCredential, fault)
            log4 == Append(log3, Step("InsertInto", ins.err))
        IN
        IF ins.err # NoErr
          THEN Result(created.remote, ins.rows, Error(GetJenkinsStatusCode(ins.err)), log4)
        ELSE Result(created.remote, ins.rows, WriteJson(created.id), log4)

\* the default branch of the type switch, looking the id up before it answers
CreateDefault_Lookup(rem, rws, r, fault, log) ==
  LET got == GetCredentialInFolder(rem, r.domain, r.contentId, r.project, fault) IN
  Result(rem, rws, Error(GetJenkinsStatusCode(LocalErr)),
         Append(log, Step("GetCredentialInFolder", got.err)))

\* the default branch of the type switch: "error unsupport  credential type"
CreateDefault(rem, rws, r, fault, log) ==
  Result(rem, rws, Error(GetJenkinsStatusCode(LocalErr)), log)

CreateCredentialHandler(rem, rws, r, fault, now) ==
  LET log0 == <<Check("DecodeJsonPayload", r.bodyOK)>> IN
  IF ~r.bodyOK THEN Result(rem, rws, Error(StatusBadRequest), log0)
  ELSE
    LET auth == checkProjectUserInRole(r.operator, r.project, AllowedRoles)
        log1 == Append(log0, Check("checkProjectUserInRole", auth))
    IN
    IF ~auth THEN Result(rem, rws, Error(StatusForbidden), log1)
    ELSE IF r.type \in CredentialTypes
      THEN CreateCase(rem, rws, r, fault, now, log1)
    ELSE CreateDefault(rem, rws, r, fault, log1)

\* ------------------------------------------------- DeleteCredentialHandler
\* govalidator.IsNull
IsNull(str) == str = ""

\* the domain condition of the delete statement
DeleteDomainCondition_AsGiven(domain) == domain

DeleteDomainCondition(domain) == IF ~IsNull(domain) THEN domain ELSE "_"

\* Db.DeleteFrom(ProjectCredentialTableName).Where(db.And(deleteConditions...)).Exec()
DeleteFrom(rws, projectId, credentialId, domain, fault) ==
  IF fault.at = "db" THEN [rows |-> rws, err |-> DbErr]
  ELSE [rows |-> {x \in rws : ~(/\ x.project_id = projectId
                                /\ x.credential_id = credentialId
                                /\ x.domain = domain)},
        err |-> NoErr]

\* err != nil after the remote delete call
RemoteDeleteFailed_Never(deleted) == FALSE

RemoteDeleteFailed(deleted) == deleted.err # NoErr

\* err != nil && err != db.ErrNotFound after the delete statement
RowDeleteFailed_Never(err) == FALSE

RowDeleteFailed(err) == err # NoErr /\ err # ErrNotFound

DeleteCredentialHandler(rem, rws, r, fault) ==
  LET log0 == <<Check("DecodeJsonPayload", r.bodyOK)>> IN
  IF ~r.bodyOK THEN Result(rem, rws, Error(StatusBadRequest), log0)
  ELSE
    LET auth == checkProjectUserInRole(r.operator, r.project, AllowedRoles)
        log1 == Append(log0, Check("checkProjectUserInRole", auth))
    IN
    IF ~auth THEN Result(rem, rws, Error(StatusForbidden), log1)
    ELSE
      LET deleted == DeleteCredentialInFolder(rem, r.domain, r.cid, r.project, fault)
          log2 == Append(log1, Step("DeleteCredentialInFolder", deleted.err))
      IN
      IF RemoteDeleteFailed(deleted)
        THEN Result(deleted.remote, rws, Error(GetJenkinsStatusCode(deleted.err)), log2)
      ELSE
        LET del == DeleteFrom(rws, r.project, r.cid, DeleteDomainCondition(r.domain), fault)
            log3 == Append(log2, Step("DeleteFrom", del.err))
        IN
        IF RowDeleteFailed(del.err)
          THEN Result(deleted.remote, del.rows, Error(GetJenkinsStatusCode(del.err)), log3)
        ELSE Result(deleted.remote, del.rows, WriteJson(deleted.id), log3)

\* ------------------------------------------------- UpdateCredentialHandler
\* CredentialTypeMap: remote type name -> credential type ("" when unmapped)
CredentialTypeMap(typeName) == IF typeName \in CredentialTypes THEN typeName ELSE ""

\* the status written when the remote update call of a case fails
UpdateFailureStatus(credentialType, err) ==
  IF credentialType = CredentialTypeSsh THEN StatusInternalServerError
  ELSE GetJenkinsStatusCode(err)

\* one case of the type switch, rewriting the owner of the row
UpdateCase_TouchRow(rem, rws, r, fault, credentialType, log) ==
  LET log1 == Append(log, Check("mapstructure.Decode", r.contentOK)) IN
  IF ContentDecodeFailed(r) THEN Result(rem, rws, Error(StatusBadRequest), log1)
  ELSE
    LET id == IF r.contentId = NoId THEN r.cid ELSE r.contentId
        updated == UpdateCredentialInFolder(rem, credentialType, r.domain, id, r.project, fault)
        log2 == Append(log1, Step(UpdateApi(credentialType), updated.err))
    IN
    IF updated.err # NoErr
      THEN Result(updated.remote, rws, Error(UpdateFailureStatus(credentialType, updated.err)), log2)
    ELSE Result(updated.remote,
                {IF x.project_id = r.project /\ x.credential_id = id
                   THEN [x EXCEPT !.creator = r.operator, !.create_time = 0] ELSE x : x \in rws},
                WriteJson(updated.id), log2)

\* one case of the type switch
UpdateCase(rem, rws, r, fault, credentialType, log) ==
  LET log1 == Append(log, Check("mapstructure.Decode", r.contentOK)) IN
  IF ContentDecodeFailed(r) THEN Result(rem, rws, Error(StatusBadRequest), log1)
  ELSE
    LET id == IF r.contentId = NoId THEN r.cid ELSE r.contentId
        updated == UpdateCredentialInFolder(rem, credentialType, r.domain, id, r.project, fault)
        log2 == Append(log1, Step(UpdateApi(credentialType), updated.err))
    IN
    IF updated.err # NoErr
      THEN Result(updated.remote, rws, Error(UpdateFailureStatus(credentialType, updated.err)), log2)
    ELSE Result(updated.remote, rws, WriteJson(updated.id), log2)

UpdateCredentialHandler(rem, rws, r, fault) ==
  LET log0 == <<Check("DecodeJsonPayload", r.bodyOK)>> IN
  IF ~r.bodyOK THEN Result(rem, rws, Error(StatusBadRequest), log0)
  ELSE
    LET auth == checkProjectUserInRole(r.operator, r.project, AllowedRoles)
        log1 == Append(log0, Check("checkProjectUserInRole", auth))
    IN
    IF ~auth THEN Result(rem, rws, Error(StatusForbidden), log1)
    ELSE
      LET got == GetCredentialInFolder(rem, r.domain, r.cid, r.project, fault)
          log2 == Append(log1, Step("GetCredentialInFolder", got.err))
      IN
      IF got.err # NoErr
        THEN Result(rem, rws, Error(GetJenkinsStatusCode(got.err)), log2)
      ELSE
        LET jenkinsCredential == CHOOSE c \in got.cred : TRUE
            credentialType == CredentialTypeMap(jenkinsCredential.type)
        IN
        IF credentialType \in CredentialTypes
          THEN UpdateCase(rem, rws, r, fault, credentialType, log2)
        ELSE Result(rem, rws, Error(StatusBadRequest), log2)

\* ---------------------------------------------------- GetCredentialHandler
\* The calls and the status of a get request; the body of its response, with
\* the fields scraped from the page, is built by GetCredentialResponse below.
\* Db.Select(...).From(...).Where(project, credential id, domain).LoadOne(..)
LoadOne(rws, projectId, credentialId, domain, fault) ==
  LET m == {x \in rws : /\ x.project_id = projectId
                        /\ x.credential_id = credentialId
                        /\ x.domain = domain}
  IN
  IF fault.at = "db" THEN [found |-> {}, err |-> DbErr]
  ELSE IF m = {} THEN [found |-> {}, err |-> ErrNotFound]
  ELSE [found |-> m, err |-> NoErr]

GetCredentialContentInFolder(rem, domain, id, project, fault) ==
  IF fault.at = "content" THEN [err |-> JenkinsErr(fault.code)]
  ELSE IF InFolder(rem, domain, id, project) = {} THEN [err |-> JenkinsErr(StatusNotFound)]
  ELSE [err |-> NoErr]

GetCredentialHandler(rem, rws, r, fault) ==
  LET auth == checkProjectUserInRole(r.operator, r.project, AllowedRoles)
      log1 == <<Check("checkProjectUserInRole", auth)>>
  IN
  IF ~auth THEN Result(rem, rws, Error(StatusForbidden), log1)
  ELSE
    LET got == GetCredentialInFolder(rem, r.domain, r.cid, r.project, fault)
        log2 == Append(log1, Step("GetCredentialInFolder", got.err))
    IN
    IF got.err # NoErr
      THEN Result(rem, rws, Error(GetJenkinsStatusCode(got.err)), log2)
    ELSE
      LET credentialResponse == CHOOSE c \in got.cred : TRUE
          loaded == LoadOne(rws, r.project, credentialResponse.id, credentialResponse.domain, fault)
          log3 == Append(log2, Step("LoadOne", loaded.err))
      IN
      IF loaded.err # NoErr /\ loaded.err # ErrNotFound
        THEN Result(rem, rws, Error(GetJenkinsStatusCode(loaded.err)), log3)
      ELSE IF r.getContent
        THEN
          LET body == GetCredentialContentInFolder(rem, r.domain, r.cid, r.project, fault)
              log4 == Append(log3, Step("GetCredentialContentInFolder", body.err))
          IN
          IF body.err # NoErr
            THEN Result(rem, rws, Error(GetJenkinsStatusCode(body.err)), log4)
          ELSE Result(rem, rws, WriteJson(credentialResponse.id), log4)
      ELSE Result(rem, rws, WriteJson(credentialResponse.id), log3)

\* ------------------------------------- GetCredentialHandler: the content
\* The configuration page of a credential, as the remote system renders it: a
\* sequence of form elements.  A name is a sequence of characters, so that
\* the selector [name*=...] is the substring test it is in goquery.
Chars_id == <<"i", "d">>
Chars_username == <<"u", "s", "e", "r", "n", "a", "m", "e">>
Chars_password == <<"p", "a", "s", "s", "w", "o", "r", "d">>
Chars_passphrase == <<"p", "a", "s", "s", "p", "h", "r", "a", "s", "e">>
Chars_privateKey == <<"p", "r", "i", "v", "a", "t", "e", "K", "e", "y">>
Chars_secret == <<"s", "e", "c", "r", "e", "t">>
Chars_content == <<"c", "o", "n", "t", "e", "n", "t">>
Chars_description == <<"d", "e", "s", "c", "r", "i", "p", "t", "i", "o", "n">>

FieldName(chars) == <<"_", ".">> \o chars
Element(tag, chars, type, value) ==
  [tag |-> tag, name |-> FieldName(chars), type |-> type, value |-> value]

\* the page of GetCredentialContentInFolder: every field of the credential,
\* the secret ones included
Page(c) ==
  <<Element("input", Chars_id, "text", c.id),
    Element("input", Chars_description, "text", c.description)>>
  \o
  CASE c.type = CredentialTypeUsernamePassword ->
         <<Element("input", Chars_username, "text", c.username),
           Element("input", Chars_password, "password", c.password)>>
    [] c.type = CredentialTypeSsh ->
         <<Element("input", Chars_username, "text", c.username),
           Element("input", Chars_passphrase, "password", c.passphrase),
           Element("textarea", Chars_privateKey, "", c.privateKey)>>
    [] c.type = CredentialTypeSecretText ->
         <<Element("input", Chars_secret, "password", c.secret)>>
    [] c.type = CredentialTypeKubeConfig ->
         <<Element("textarea", Chars_content, "", c.content)>>
    [] OTHER -> <<>>

\* name*=chars
Contains(name, chars) ==
  \E i \in 1..(Len(name) - Len(chars) + 1) :
    SubSeq(name, i, i + Len(chars) - 1) = chars

\* doc.Find("tag[name*=chars][type=type]"): the matching positions
Find(doc, tag, chars, type) ==
  {i \in DOMAIN doc : /\ doc[i].tag = tag
                      /\ Contains(doc[i].name, chars)
                      /\ (type = "" \/ doc[i].type = type)}

\* .Each(func ... { field = value }): the last match is kept, "" without one
Each(doc, found) ==
  IF found = {} THEN ""
  ELSE doc[CHOOSE i \in found : \A j \in found : j <= i].value

\* json.Marshal then json.Unmarshal into response.Content: the map of the
\* struct's json keys, without the empty omitempty ones
Marshal(struct, omitempty) ==
  {<<k, struct[k]>> : k \in {k \in DOMAIN struct : ~(k \in omitempty /\ struct[k] = "")}}

NoContent == {}


\* case CredentialTypeKubeConfig: content, id, description
ScrapeKubeconfig(doc) ==
  Marshal([id |-> Each(doc, Find(doc, "input", Chars_id, "text")),
           content |-> Each(doc, Find(doc, "textarea", Chars_content, "")),
           description |-> Each(doc, Find(doc, "input", Chars_description, ""))],
          {})

\* the username/password case, reading the password input as well
ScrapeUsernamePassword_Password(doc) ==
  Marshal([id |-> Each(doc, Find(doc, "input", Chars_id, "text")),
           username |-> Each(doc, Find(doc, "input", Chars_username, "")),
           password |-> Each(doc, Find(doc, "input", Chars_password, "")),
           description |-> Each(doc, Find(doc, "input", Chars_description, ""))],
          {"password"})

\* case CredentialTypeUsernamePassword: username, id, description; Password
\* stays empty and is omitempty
ScrapeUsernamePassword(doc) ==
  Marshal([id |-> Each(doc, Find(doc, "input", Chars_id, "text")),
           username |-> Each(doc, Find(doc, "input", Chars_username, "")),
           password |-> "",
           description |-> Each(doc, Find(doc, "input", Chars_description, ""))],
          {"password"})

\* case CredentialTypeSsh: username, id, description, privateKey; Passphrase
\* stays empty and is written as ""
ScrapeSsh(doc) ==
  Marshal([id |-> Each(doc, Find(doc, "input", Chars_id, "text")),
           username |-> Each(doc, Find(doc, "input", Chars_username, "")),
           passphrase |-> "",
           private_key |-> Each(doc, Find(doc, "textarea", Chars_privateKey, "")),
           description |-> Each(doc, Find(doc, "input", Chars_description, ""))],
          {})

\* switch response.Type: there is no secret_text case and no default
ScrapeContent(type, doc) ==
  CASE type = CredentialTypeKubeConfig -> ScrapeKubeconfig(doc)
    [] type = CredentialTypeUsernamePassword -> ScrapeUsernamePassword(doc)
    [] type = CredentialTypeSsh -> ScrapeSsh(doc)
    [] OTHER -> NoContent

formatCredentialResponse(credentialResponse) ==
  [id |-> credentialResponse.id,
   type |-> CredentialTypeMap(credentialResponse.type),
   domain |-> credentialResponse.domain,
   description |-> credentialResponse.description]

WriteJsonResponse(response, content) ==
  [kind |-> "json", code |-> StatusOK, id |-> response.id, type |-> response.type,
   domain |-> response.domain, description |-> response.description,
   content |-> content]

\* GetCredentialHandler with the body of its response: the calls and the
\* error paths are those of GetCredentialHandler above
GetCredentialResponse(rem, rws, r, fault) ==
  LET res == GetCredentialHandler(rem, rws, r, fault) IN
  IF res.resp.kind # "json" THEN res
  ELSE
    LET credentialResponse == CHOOSE c \in InFolder(rem, r.domain, r.cid, r.project) : TRUE
        response == formatCredentialResponse(credentialResponse)
        content == IF r.getContent
                     THEN ScrapeContent(response.type, Page(credentialResponse))
                     ELSE NoContent
    IN [res EXCEPT !.resp = WriteJsonResponse(response, content)]

\* --------------------------------------------------- GetCredentialsHandler
GetCredentialsInFolder(rem, domain, project, fault) ==
  IF fault.at = "lookup" THEN [creds |-> {}, err |-> JenkinsErr(fault.code)]
  ELSE [creds |-> {c \in rem : c.project = project /\ c.domain = JenkinsDomain(domain)},
        err |-> NoErr]

\* Db.Select(...).From(...).Where(selectCondition).Load(&projectCredentials)
Load(rws, projectId, domain, fault) ==
  IF fault.at = "db" THEN [found |-> {}, err |-> DbErr]
  ELSE [found |-> {x \in rws : /\ x.project_id = projectId
                               /\ (IsNull(domain) \/ x.domain = domain)},
        err |-> NoErr]

GetCredentialsHandler(rem, rws, r, fault) ==
  LET auth == checkProjectUserInRole(r.operator, r.project, AllowedRoles)
      log1 == <<Check("checkProjectUserInRole", auth)>>
  IN
  IF ~auth THEN Result(rem, rws, Error(StatusForbidden), log1)
  ELSE
    LET listed == GetCredentialsInFolder(rem, r.domain, r.project, fault)
        log2 == Append(log1, Step("GetCredentialsInFolder", listed.err))
    IN
    IF listed.err # NoErr
      THEN Result(rem, rws, Error(GetJenkinsStatusCode(listed.err)), log2)
    ELSE
      LET loaded == Load(rws, r.project, r.domain, fault)
          log3 == Append(log2, Step("Load", loaded.err))
      IN
      IF loaded.err # NoErr
        THEN Result(rem, rws, Error(GetJenkinsStatusCode(loaded.err)), log3)
      ELSE Result(rem, rws, WriteJson(""), log3)

\* ---------------------------------------------------------------- requests
Request(op, p, cid, bodyOK, type, domain, contentOK, contentId, getContent) ==
  [operator |-> op, project |-> p, cid |-> cid, bodyOK |-> bodyOK,
   type |-> type, domain |-> domain, contentOK |-> contentOK,
   contentId |-> contentId, getContent |-> getContent]

\* an undecodable body carries no fields
BadBody(op, p, cid) ==
  Request(op, p, cid, FALSE, "", "", FALSE, NoId, FALSE)

CreateRequests ==
  {BadBody(op, p, "") : op \in Operators, p \in Projects}
  \cup
  {Request(op, p, "", TRUE, t, d, cok, IF cok THEN id ELSE NoId, FALSE) :
     op \in Operators, p \in Projects,
     t \in CredentialTypes \cup {UnsupportedType}, d \in Domains,
     cok \in BOOLEAN, id \in CreateIds}

DeleteRequests ==
  {BadBody(op, p, cid) : op \in Operators, p \in Projects, cid \in Ids}
  \cup
  {Request(op, p, cid, TRUE, "", d, FALSE, NoId, FALSE) :
     op \in Operators, p \in Projects, cid \in Ids, d \in Domains}

\* the type field of an update body is decoded but never read
UpdateRequests ==
  {BadBody(op, p, cid) : op \in Operators, p \in Projects, cid \in Ids}
  \cup
  {Request(op, p, cid, TRUE, t, d, cok, IF cok THEN id ELSE NoId, FALSE) :
     op \in Operators, p \in Projects, cid \in Ids,
     t \in {CredentialTypeSecretText}, d \in Domains,
     cok \in BOOLEAN, id \in Ids \cup {NoId}}

\* get and list read the URL only: there is no body to decode
GetRequests ==
  {Request(op, p, cid, TRUE, "", d, FALSE, NoId, gc) :
     op \in Operators, p \in Projects, cid \in Ids, d \in Domains, gc \in BOOLEAN}

ListRequests ==
  {Request(op, p, "", TRUE, "", d, FALSE, NoId, FALSE) :
     op \in Operators, p \in Projects, d \in Domains}

NoRequest == Request("", "", "", FALSE, "", "", FALSE, NoId, FALSE)
NoResponse == [kind |-> "none", code |-> 0, id |-> ""]

\* a handler goroutine: where it stands, its request and its response
Call(pc, r, resp) == [pc |-> pc, req |-> r, resp |-> resp]
NoCall == Call("none", NoRequest, NoResponse)

\* ------------------------------------------------------------ state machine
\* a credential of another kind, created in the remote system itself
ForeignCredential ==
  [project |-> "p2", domain |-> "dev", id |-> "c2", type |-> UnsupportedType]

\* a credential created earlier through CreateCredentialHandler, with its row
OwnedCredential ==
  [project |-> "p1", domain |-> "_", id |-> "c1", type |-> CredentialTypeUsernamePassword]

Init ==
  /\ remote = {ForeignCredential, OwnedCredential}
  /\ rows = {NewProjectCredential("p1", "c1", "", "alice", 0)}
  /\ last = [handler |-> "none", req |-> NoRequest, resp |-> NoResponse, calls |-> <<>>]
  /\ nreq = 0
  /\ inflight = [create |-> NoCall, delete |-> NoCall]

\* the downstream failures of a request: a request rejected before its first
\* remote call meets none
Faults(r, places) ==
  IF r.bodyOK /\ Membership[r.operator][r.project] \in {ProjectOwner, ProjectMaintainer}
    THEN {NoFault} \cup places
    ELSE {NoFault}

Serve(handler, r, res) ==
  /\ remote' = res.remote
  /\ rows' = res.rows
  /\ last' = [handler |-> handler, req |-> r, resp |-> res.resp, calls |-> res.calls]
  /\ nreq' = nreq + 1
  /\ UNCHANGED inflight

CreateCredential ==
  /\ nreq < MaxRequests
  /\ \E r \in CreateRequests :
       \E fault \in Faults(r, {DbFault} \cup RemoteFaults({"lookup", "mutate"})) :
         Serve("create", r, CreateCredentialHandler(remote, rows, r, fault, nreq + 1))

DeleteCredential ==
  /\ nreq < MaxRequests
  /\ \E r \in DeleteRequests :
       \E fault \in Faults(r, {DbFault} \cup RemoteFaults({"mutate"})) :
         Serve("delete", r, DeleteCredentialHandler(remote, rows, r, fault))

UpdateCredential ==
  /\ nreq < MaxRequests
  /\ \E r \in UpdateRequests :
       \E fault \in Faults(r, RemoteFaults({"lookup", "mutate"})) :
         Serve("update", r, UpdateCredentialHandler(remote, rows, r, fault))

GetCredential ==
  /\ nreq < MaxRequests
  /\ \E r \in GetRequests :
       \E fault \in Faults(r, {DbFault} \cup RemoteFaults({"lookup", "content"})) :
         Serve("get", r, GetCredentialHandler(remote, rows, r, fault))

GetCredentials ==
  /\ nreq < MaxRequests
  /\ \E r \in ListRequests :
       \E fault \in Faults(r, {DbFault} \cup RemoteFaults({"lookup"})) :
         Serve("list", r, GetCredentialsHandler(remote, rows, r, fault))

Next ==
  \/ CreateCredential
  \/ DeleteCredential
  \/ UpdateCredential
  \/ GetCredential
  \/ GetCredentials

Spec == Init /\ [][Next]_vars

\* ------------------------------------------- concurrent create and delete
\* One create and one delete of the same (project, domain, id), each in its
\* own goroutine.  A goroutine takes one step per remote or store call; the
\* work before its first call (decoding, role check) is local to it.  No call
\* fails for a reason other than the credential being absent.
ConcOperator == "alice"
ConcId == "c1"

Finish(call, resp) == Call("done", call.req, resp)
Goto(call, pc) == Call(pc, call.req, call.resp)

ConcInit ==
  \E p \in Projects, d \in Domains, t \in CredentialTypes, present \in BOOLEAN :
    /\ remote = IF present
                  THEN {[project |-> p, domain |-> JenkinsDomain(d), id |-> ConcId, type |-> t]}
                  ELSE {}
    /\ rows = IF present THEN {NewProjectCredential(p, ConcId, d, ConcOperator, 0)} ELSE {}
    /\ last = [handler |-> "none", req |-> NoRequest, resp |-> NoResponse, calls |-> <<>>]
    /\ nreq = 0
    /\ inflight =
         [create |-> Call("lookup", Request(ConcOperator, p, "", TRUE, t, d, TRUE, ConcId, FALSE),
                          NoResponse),
          delete |-> Call("delete", Request(ConcOperator, p, ConcId, TRUE, "", d, FALSE, NoId, FALSE),
                          NoResponse)]

\* CreateCredentialHandler up to and including the lookup
CreateLookup ==
  /\ inflight.create.pc = "lookup"
  /\ LET c == inflight.create
         r == c.req
         got == GetCredentialInFolder(remote, r.domain, r.contentId, r.project, NoFault)
     IN inflight' = [inflight EXCEPT !.create =
          IF ~r.bodyOK THEN Finish(c, Error(StatusBadRequest))
          ELSE IF ~checkProjectUserInRole(r.operator, r.project, AllowedRoles)
            THEN Finish(c, Error(StatusForbidden))
          ELSE IF r.type \notin CredentialTypes
            THEN Finish(c, Error(GetJenkinsStatusCode(LocalErr)))
          ELSE IF ContentDecodeFailed(r) THEN Finish(c, Error(StatusBadRequest))
          ELSE IF CredentialUsed(got) THEN Finish(c, Error(StatusConflict))
          ELSE IF got.err # NoErr /\ GetJenkinsStatusCode(got.err) # StatusNotFound
            THEN Finish(c, Error(StatusBadRequest))
          ELSE Goto(c, "create")]
  /\ UNCHANGED <<remote, rows, last, nreq>>

\* the remote create call of CreateCredentialHandler
CreateRemote ==
  /\ inflight.create.pc = "create"
  /\ LET c == inflight.create
         r == c.req
         created == CreateCredentialInFolder(remote, r.type, r.domain, r.contentId,
                                             r.project, NoFault)
     IN /\ remote' = created.remote
        /\ inflight' = [inflight EXCEPT !.create =
             IF CreateFailed(created)
               THEN Finish(c, Error(GetJenkinsStatusCode(created.err)))
               ELSE Call("insert", r, WriteJson(created.id))]
  /\ UNCHANGED <<rows, last, nreq>>

\* the insert of the ownership row, and the response
CreateInsert ==
  /\ inflight.create.pc = "insert"
  /\ LET c == inflight.create
         r == c.req
         projectCredential ==
           NewProjectCredential(r.project, r.contentId, r.domain, r.operator, nreq + 1)
         ins == InsertInto(rows, projectCredential, NoFault)
     IN /\ rows' = ins.rows
        /\ inflight' = [inflight EXCEPT !.create =
             IF ins.err # NoErr THEN Finish(c, Error(GetJenkinsStatusCode(ins.err)))
             ELSE Finish(c, c.resp)]
  /\ UNCHANGED <<remote, last, nreq>>

\* DeleteCredentialHandler up to and including the remote delete call
DeleteRemote ==
  /\ inflight.delete.pc = "delete"
  /\ LET c == inflight.delete
         r == c.req
         deleted == DeleteCredentialInFolder(remote, r.domain, r.cid, r.project, NoFault)
         rejected == ~r.bodyOK \/ ~checkProjectUserInRole(r.operator, r.project, AllowedRoles)
     IN /\ remote' = IF rejected THEN remote ELSE deleted.remote
        /\ inflight' = [inflight EXCEPT !.delete =
             IF ~r.bodyOK THEN Finish(c, Error(StatusBadRequest))
             ELSE IF rejected THEN Finish(c, Error(StatusForbidden))
             ELSE IF RemoteDeleteFailed(deleted)
               THEN Finish(c, Error(GetJenkinsStatusCode(deleted.err)))
             ELSE Call("deleteRow", r, WriteJson(deleted.id))]
  /\ UNCHANGED <<rows, last, nreq>>

\* the delete statement on the ownership rows, and the response
DeleteRow ==
  /\ inflight.delete.pc = "deleteRow"
  /\ LET c == inflight.delete
         r == c.req
         del == DeleteFrom(rows, r.project, r.cid, DeleteDomainCondition(r.domain), NoFault)
     IN /\ rows' = del.rows
        /\ inflight' = [inflight EXCEPT !.delete =
             IF RowDeleteFailed(del.err) THEN Finish(c, Error(GetJenkinsStatusCode(del.err)))
             ELSE Finish(c, c.resp)]
  /\ UNCHANGED <<remote, last, nreq>>

ConcNext ==
  \/ CreateLookup
  \/ CreateRemote
  \/ CreateInsert
  \/ DeleteRemote
  \/ DeleteRow

ConcSpec == ConcInit /\ [][ConcNext]_vars

\* --------------------------------------------- get with the response body
\* One stored credential with its fields; requests read it, with and without
\* the content query parameter.
\* the values a field may hold; no value is shared between two fields
Passwords == {"password-a", "password-b"}
Passphrases == {"passphrase-a", "passphrase-b"}
PrivateKeys == {"key-a", "key-b"}
SecretTexts == {"token-a", "token-b"}
Kubeconfigs == {"kubeconfig-a", "kubeconfig-b"}
GetOwner == "alice"

StoredCredential(type, password, passphrase, privateKey, secret, content) ==
  [project |-> "p1", domain |-> "_", id |-> "c1", type |-> type,
   username |-> IF type \in {CredentialTypeUsernamePassword, CredentialTypeSsh}
                  THEN "git" ELSE "",
   description |-> "deploy",
   password |-> password, passphrase |-> passphrase, privateKey |-> privateKey,
   secret |-> secret, content |-> content]

StoredCredentials ==
  {StoredCredential(CredentialTypeUsernamePassword, s, "", "", "", "") : s \in Passwords}
  \cup
  {StoredCredential(CredentialTypeSsh, "", s, k, "", "") : s \in Passphrases, k \in PrivateKeys}
  \cup
  {StoredCredential(CredentialTypeSecretText, "", "", "", s, "") : s \in SecretTexts}
  \cup
  {StoredCredential(CredentialTypeKubeConfig, "", "", "", "", s) : s \in Kubeconfigs}

GetInit ==
  \E c \in StoredCredentials :
    /\ remote = {c}
    /\ rows = {NewProjectCredential(c.project, c.id, "", GetOwner, 0)}
    /\ last = [handler |-> "none", req |-> NoRequest, resp |-> NoResponse, calls |-> <<>>]
    /\ nreq = 0
    /\ inflight = [create |-> NoCall, delete |-> NoCall]

GetFaults == {NoFault, DbFault} \cup RemoteFaults({"lookup", "content"})

GetCredentialContent ==
  /\ nreq < MaxRequests
  /\ \E r \in GetRequests :
       \E fault \in Faults(r, GetFaults) :
         Serve("get", r, GetCredentialResponse(remote, rows, r, fault))

GetNext == GetCredentialContent

GetSpec == GetInit /\ [][GetNext]_vars

\* =================================================================== claims
\* vocabulary of the properties, stated on the request log and the stores
PosIn(l, apis) == {i \in DOMAIN l.calls : l.calls[i].api \in apis}
OkIn(l, apis) == {i \in PosIn(l, apis) : l.calls[i].ok}
FailedIn(l, apis) == {i \in PosIn(l, apis) : ~l.calls[i].ok}
Served(l) == l.handler # "none"
HoldsRole(rq) == Membership[rq.operator][rq.project] \in {ProjectOwner, ProjectMaintainer}
StoredDomain(d) == IF d = "" THEN "_" ELSE d
RemoteHas(rem, p, d, id) ==
  \E c \in rem : c.project = p /\ c.domain = StoredDomain(d) /\ c.id = id
RemoteHasSupported(rem, p, d, id) ==
  \E c \in rem : /\ c.project = p /\ c.domain = StoredDomain(d) /\ c.id = id
                 /\ c.type \in CredentialTypes
RowsOfId(rws, p, id) == {x \in rws : x.project_id = p /\ x.credential_id = id}
RowsOfKey(rws, p, d, id) == {x \in RowsOfId(rws, p, id) : x.domain = StoredDomain(d)}
Succeeded(l) == l.resp.kind = "json" /\ l.resp.code = StatusOK
Failed(l) == l.resp.kind = "error" /\ l.resp.code # StatusOK

\* ----------------------------------------------------------------------- C1
\* C1: in every reachable state every ownership row (project id, credential
\* id, domain) has a remote credential with the same id in the same domain of
\* that project's folder.
C1_RowsBacked ==
  \A x \in rows :
    \E c \in remote :
      c.project = x.project_id /\ c.id = x.credential_id /\ c.domain = x.domain

\* ----------------------------------------------------------------------- C2
\* C2 (as stated): whenever the caller holds neither the owner nor the
\* maintainer role, the response status is 403 and the request calls no
\* remote-API method and touches no ownership row.
C2_Original ==
  (Served(last) /\ ~HoldsRole(last.req)) =>
    /\ last.resp.code = StatusForbidden
    /\ PosIn(last, RemoteApis \cup RowApis) = {}

\* C2 (amended): a request of a caller holding neither role whose body
\* decodes (get and list have no body) is answered 403, calls no remote-API
\* method, reads or writes no ownership row and leaves both stores unchanged;
\* with an undecodable body create, update and delete answer 400 before the
\* role is checked, also without any remote or row call.
C2_UnauthorizedRejected ==
  [][(~HoldsRole(last'.req)) =>
       /\ last'.resp = Error(IF last'.req.bodyOK THEN StatusForbidden ELSE StatusBadRequest)
       /\ PosIn(last', RemoteApis \cup RowApis) = {}
       /\ (~last'.req.bodyOK => last'.handler \in {"create", "update", "delete"})
       /\ remote' = remote /\ rows' = rows]_vars

C2_Witness ==
  /\ last.handler = "get" /\ ~HoldsRole(last.req)
  /\ last.resp.code = StatusForbidden
  /\ remote # {} /\ rows # {}

\* ----------------------------------------------------------------------- C3
\* C3 (as stated): a create request of an authorized caller, for any of the
\* four types, whose credential id already exists remotely in the requested
\* domain of the project's folder is answered 409, calls no remote create
\* method and inserts no row; remote credentials and rows are unchanged.
C3_Original ==
  [][(/\ last'.handler = "create" /\ last'.req.bodyOK /\ HoldsRole(last'.req)
      /\ last'.req.type \in CredentialTypes /\ last'.req.contentOK
      /\ RemoteHas(remote, last'.req.project, last'.req.domain, last'.req.contentId))
     =>
       /\ last'.resp.code = StatusConflict
       /\ PosIn(last', CreateApis \cup {"InsertInto"}) = {}
       /\ remote' = remote /\ rows' = rows]_vars

\* C3 (amended): such a request is answered 409 when the remote lookup
\* returns the credential, and 400 when the lookup itself fails; in both
\* cases no remote create method is called, no row is inserted and remote
\* credentials and rows are unchanged.
C3_DuplicateRejected ==
  [][(/\ last'.handler = "create" /\ last'.req.bodyOK /\ HoldsRole(last'.req)
      /\ last'.req.type \in CredentialTypes /\ last'.req.contentOK
      /\ RemoteHas(remote, last'.req.project, last'.req.domain, last'.req.contentId))
     =>
       /\ last'.resp.kind = "error"
       /\ last'.resp.code =
            IF OkIn(last', {"GetCredentialInFolder"}) # {} THEN StatusConflict
            ELSE StatusBadRequest
       /\ PosIn(last', CreateApis \cup {"InsertInto"}) = {}
       /\ remote' = remote /\ rows' = rows]_vars

C3_Witness ==
  /\ last.handler = "create" /\ HoldsRole(last.req)
  /\ last.resp.code = StatusConflict
  /\ RemoteHas(remote, last.req.project, last.req.domain, last.req.contentId)

\* ----------------------------------------------------------------------- C4
\* C4: when the remote create, update or delete call of a request fails, the
\* response status is the status code carried by the remote error, for every
\* credential type and each of the create, update and delete handlers.
C4_Passthrough ==
  (last.handler \in {"create", "update", "delete"}) =>
    \A i \in FailedIn(last, MutateApis) : last.resp.code = last.calls[i].code

\* ----------------------------------------------------------------------- C5
\* C5 (as stated): a create, update or delete request whose body cannot be
\* decoded, or a create or update request whose content cannot be decoded
\* into the payload of the selected credential type, is answered 400 and
\* performs no remote create, update or delete and no row insert or delete.
C5_Original ==
  [][(/\ last'.handler \in {"create", "update", "delete"}
      /\ \/ ~last'.req.bodyOK
         \/ /\ last'.handler = "create" /\ ~last'.req.contentOK
            /\ last'.req.type \in CredentialTypes
         \/ /\ last'.handler = "update" /\ ~last'.req.contentOK
            /\ RemoteHasSupported(remote, last'.req.project, last'.req.domain, last'.req.cid))
     =>
       /\ last'.resp.code = StatusBadRequest
       /\ PosIn(last', MutateApis \cup RowWriteApis) = {}]_vars

\* C5 (amended): a create, update or delete request whose body cannot be
\* decoded, or a create or update request of a caller holding the owner or
\* maintainer role whose content cannot be decoded into the payload of the
\* selected type (for update: the type of the credential the remote lookup
\* returned), is answered 400, performs no remote create, update or delete
\* and no row insert or delete, and leaves both stores unchanged.
C5_DecodeFailureRejected ==
  [][(/\ last'.handler \in {"create", "update", "delete"}
      /\ \/ ~last'.req.bodyOK
         \/ /\ last'.handler = "create" /\ ~last'.req.contentOK
            /\ last'.req.type \in CredentialTypes
            /\ HoldsRole(last'.req)
         \/ /\ last'.handler = "update" /\ ~last'.req.contentOK
            /\ RemoteHasSupported(remote, last'.req.project, last'.req.domain, last'.req.cid)
            /\ HoldsRole(last'.req)
            /\ OkIn(last', {"GetCredentialInFolder"}) # {})
     =>
       /\ last'.resp = Error(StatusBadRequest)
       /\ PosIn(last', MutateApis \cup RowWriteApis) = {}
       /\ remote' = remote /\ rows' = rows]_vars

C5_Witness ==
  /\ last.handler = "update" /\ HoldsRole(last.req) /\ last.req.bodyOK
  /\ FailedIn(last, {"mapstructure.Decode"}) # {}
  /\ last.resp.code = StatusBadRequest

\* ----------------------------------------------------------------------- C6
\* C6: a row is inserted only by CreateCredentialHandler and only right
\* after the remote create call of the same request returned success: the
\* new row belongs to a credential this request added remotely, a request
\* whose remote create failed or was never reached inserts nothing, and no
\* other handler inserts a row.
C6_InsertAfterCreate ==
  [][/\ \A i \in PosIn(last', {"InsertInto"}) :
          /\ last'.handler = "create"
          /\ i > 1
          /\ last'.calls[i - 1].api \in CreateApis
          /\ last'.calls[i - 1].ok
     /\ (rows' \ rows # {}) => (last'.handler = "create" /\ PosIn(last', {"InsertInto"}) # {})
     /\ (OkIn(last', CreateApis) = {}) => (rows' \subseteq rows)
     /\ \A x \in rows' \ rows :
          \E c \in remote' \ remote :
            c.project = x.project_id /\ c.id = x.credential_id /\ c.domain = x.domain]_vars

C6_Witness ==
  /\ last.handler = "create" /\ Succeeded(last)
  /\ OkIn(last, CreateApis) # {}
  /\ \E x \in rows : x.create_time = nreq /\ x.credential_id = last.req.contentId

\* ----------------------------------------------------------------------- C7
\* C7 (as stated): after a create that succeeds followed by a delete that
\* succeeds for the same project, credential id and domain value of the
\* body, no ownership row for that project and credential id remains.
C7_Original ==
  [][(/\ last.handler = "create" /\ Succeeded(last)
      /\ last'.handler = "delete" /\ Succeeded(last')
      /\ last'.req.project = last.req.project
      /\ last'.req.cid = last.req.contentId
      /\ last'.req.domain = last.req.domain)
     => RowsOfId(rows', last'.req.project, last'.req.cid) = {}]_vars

\* C7 (amended): after such a create and delete no ownership row for that
\* project, credential id and domain remains, for every domain value
\* including the empty one (stored as "_"); rows of the same credential id in
\* another domain are kept.
C7_CreateThenDelete ==
  [][(/\ last.handler = "create" /\ Succeeded(last)
      /\ last'.handler = "delete" /\ Succeeded(last')
      /\ last'.req.project = last.req.project
      /\ last'.req.cid = last.req.contentId
      /\ last'.req.domain = last.req.domain)
     =>
       /\ RowsOfKey(rows, last.req.project, last.req.domain, last.req.contentId) # {}
       /\ RowsOfKey(rows', last'.req.project, last'.req.domain, last'.req.cid) = {}
       /\ rows' = rows \ RowsOfKey(rows, last.req.project, last.req.domain, last.req.contentId)]_vars

\* the second request deleted, with an empty domain, a credential that only
\* the first request can have created
C7_Witness ==
  /\ nreq = 2
  /\ last.handler = "delete" /\ Succeeded(last)
  /\ last.req.project = "p2" /\ last.req.cid = "c1" /\ last.req.domain = ""
  /\ RowsOfId(rows, "p2", "c1") = {}

\* ----------------------------------------------------------------------- C8
\* C8: update, get and list leave the set of ownership rows and every field
\* of every row unchanged, whatever the outcome of the request.
C8_RowsNeverMutated ==
  [][(last'.handler \in {"update", "get", "list"}) => rows' = rows]_vars

C8_Witness ==
  /\ last.handler = "update" /\ Succeeded(last)
  /\ RowsOfKey(rows, last.req.project, last.req.domain, last.resp.id) # {}

C10_Original ==
  (Served(last) /\ OkIn(last, {"checkProjectUserInRole"}) # {} /\ Succeeded(last)) =>
    /\ Cardinality(PosIn(last, RemoteApis)) = 1
    /\ \A i \in PosIn(last, RowWriteApis) :
         \E j \in OkIn(last, RemoteApis) : j < i

\* C10 (amended): every handler follows the order decode request, authorize
\* the caller's role, type-switch, decode the type-specific payload, remote
\* calls, local row, response.  Remote-API and row calls are made only after
\* the role check succeeded; a request calls at most one mutating remote
\* method (create, update or delete), which create and update precede by one
\* remote lookup (in update the lookup comes before the payload is decoded,
\* because it selects the type), so a request makes at most two remote
\* calls and a successful create, update or delete exactly one mutating call; the local
\* row is inserted or deleted only right after that call succeeded.
C10_HandlerOrder ==
  Served(last) =>
    /\ \A i \in PosIn(last, {"DecodeJsonPayload"}) : i = 1
    /\ \A i \in PosIn(last, RemoteApis \cup RowApis \cup {"mapstructure.Decode"}) :
         \E j \in OkIn(last, {"checkProjectUserInRole"}) : j < i
    /\ \A i \in PosIn(last, {"checkProjectUserInRole"}) :
         \A j \in 1 .. (i - 1) : last.calls[j].api = "DecodeJsonPayload" /\ last.calls[j].ok
    /\ Cardinality(PosIn(last, MutateApis)) <= 1
    /\ Cardinality(PosIn(last, RemoteApis)) <= 2
    /\ \A i \in PosIn(last, MutateApis) :
         /\ last.handler \in {"create", "update", "delete"}
         /\ last.handler = "create" =>
              /\ last.calls[i - 2].api = "mapstructure.Decode"
              /\ last.calls[i - 1].api = "GetCredentialInFolder"
         /\ last.handler = "update" =>
              /\ last.calls[i - 2].api = "GetCredentialInFolder"
              /\ last.calls[i - 1].api = "mapstructure.Decode"
    /\ \A i \in PosIn(last, RowWriteApis) :
         /\ i > 1
         /\ last.calls[i - 1].api \in MutateApis
         /\ last.calls[i - 1].ok
    /\ (last.handler \in {"create", "update", "delete"} /\ Succeeded(last)) =>
         Cardinality(OkIn(last, MutateApis)) = 1

C10_Witness ==
  /\ last.handler = "create" /\ Succeeded(last)
  /\ Cardinality(PosIn(last, RemoteApis)) = 2
  /\ PosIn(last, {"InsertInto"}) = {Len(last.calls)}

\* ---- C11 ----------------------------------------------------------------
\* C11: when one create and one delete of the same (project, domain, id) run
\* concurrently and no call fails except for absence, then once both have
\* responded an ownership row exists for the key exactly when the remote
\* credential exists.
ConcDone == inflight.create.pc = "done" /\ inflight.delete.pc = "done"

C11_ConcurrentConsistent ==
  ConcDone =>
    LET r == inflight.delete.req IN
      (RowsOfKey(rows, r.project, r.domain, r.cid) # {})
        <=> RemoteHas(remote, r.project, r.domain, r.cid)

\* ---- C12 ----------------------------------------------------------------
\* one request was served in this step, by UpdateCredentialHandler
UpdateServed == nreq' # nreq /\ last'.handler = "update"
CredentialKey(c) == [project |-> c.project, domain |-> c.domain, id |-> c.id]
StoredAtPath(rem, rq) == InFolder(rem, rq.domain, rq.cid, rq.project)
UpdateCalls(l) == PosIn(l, UpdateApis)

\* an update adds no remote credential and removes none
C12_CreatesNone ==
  {CredentialKey(c) : c \in remote'} = {CredentialKey(c) : c \in remote}

\* every remote credential keeps its type
C12_KeepsType ==
  \A c \in remote, c2 \in remote' :
    CredentialKey(c) = CredentialKey(c2) => c2.type = c.type

\* a failed lookup ends the request with the lookup's status, no update call
C12_LookupFailure ==
  \A i \in FailedIn(last', {"GetCredentialInFolder"}) :
    /\ UpdateCalls(last') = {}
    /\ last'.resp = Error(last'.calls[i].code)

\* at most one update method is called: the one of the stored credential's
\* type, with the id of the path unless the content carries one
C12_StoredTypeMethod ==
  /\ Cardinality(UpdateCalls(last')) <= 1
  /\ \A i \in UpdateCalls(last') :
       /\ \E c \in StoredAtPath(remote, last'.req) :
            /\ c.type \in CredentialTypes
            /\ last'.calls[i].api = UpdateApi(c.type)
       /\ Succeeded(last') =>
            last'.resp.id = IF last'.req.contentId = NoId THEN last'.req.cid
                            ELSE last'.req.contentId

\* a stored credential of no supported type: 400 and no update call
C12_UnsupportedStored ==
  (/\ OkIn(last', {"GetCredentialInFolder"}) # {}
   /\ \E c \in StoredAtPath(remote, last'.req) : c.type \notin CredentialTypes)
  => last'.resp = Error(StatusBadRequest) /\ UpdateCalls(last') = {}

\* C12: UpdateCredentialHandler never creates a credential and never changes
\* a credential's type; a failed lookup gives the lookup's status and no
\* update call; otherwise the one update method called is that of the stored
\* credential's type, with the path id unless the content overrides it; a
\* stored type outside the four supported types gives 400 and no update call.
C12_UpdateKeepsType ==
  [][UpdateServed =>
       /\ C12_CreatesNone
       /\ C12_KeepsType
       /\ C12_LookupFailure
       /\ C12_StoredTypeMethod
       /\ C12_UnsupportedStored]_vars

\* ---- C14 ----------------------------------------------------------------
\* C14: a create request by an authorized caller whose type is none of the
\* four supported types is answered with an error status, calls no remote
\* method (neither lookup nor create), inserts no ownership row, and leaves
\* the remote credentials and the ownership rows unchanged.
C14_UnsupportedTypeRejected ==
  [][(/\ nreq' # nreq
      /\ last'.handler = "create"
      /\ last'.req.bodyOK
      /\ HoldsRole(last'.req)
      /\ last'.req.type \notin CredentialTypes)
     => /\ Failed(last')
        /\ PosIn(last', RemoteApis) = {}
        /\ PosIn(last', RowApis) = {}
        /\ remote' = remote
        /\ rows' = rows]_vars

C14_Witness ==
  /\ last.handler = "create"
  /\ last.req.bodyOK
  /\ HoldsRole(last.req)
  /\ last.req.type = UnsupportedType
  /\ Failed(last)
  /\ Len(last.calls) = 2

\* ---- C13 ----------------------------------------------------------------
GetAnswered == last.handler = "get" /\ last.resp.kind = "json"
ContentValues(resp) == {kv[2] : kv \in resp.content}
ContentKeys(resp) == {kv[1] : kv \in resp.content}

\* the values of a stored credential that are secrets
SecretsOf(c) == {c.password, c.passphrase, c.privateKey, c.secret, c.content} \ {""}

\* the credentials that differ from c at most in password, passphrase and
\* secret-text secret
SameButSecrets(c) ==
  {v \in StoredCredentials :
     v = [c EXCEPT !.password = v.password, !.passphrase = v.passphrase,
                   !.secret = v.secret]}

\* C13 as stated: a get response never carries a secret value recovered from
\* the remote system.
C13_Original ==
  GetAnswered => \A c \in remote : ContentValues(last.resp) \cap SecretsOf(c) = {}

\* C13: the content of a get response is filled only when the content
\* parameter is given; it never carries the password, the passphrase or the
\* secret-text secret of the stored credential (a secret-text credential gets
\* no content at all); and the same request on a credential differing only
\* in those three values is answered identically.  The SSH private key and
\* the kubeconfig content are read from the page and returned.
C13_SecretsNotReturned ==
  GetAnswered =>
    /\ ~last.req.getContent => last.resp.content = NoContent
    /\ last.resp.type = CredentialTypeSecretText => last.resp.content = NoContent
    /\ "password" \notin ContentKeys(last.resp)
    /\ \A kv \in last.resp.content : kv[1] = "passphrase" => kv[2] = ""
    /\ \A c \in remote :
         /\ ContentValues(last.resp) \cap ({c.password, c.passphrase, c.secret} \ {""}) = {}
         /\ \A v \in SameButSecrets(c), fault \in GetFaults :
              GetCredentialResponse(remote, rows, last.req, fault).resp = last.resp
                => GetCredentialResponse({v}, rows, last.req, fault).resp = last.resp

C13_Witness ==
  /\ GetAnswered
  /\ last.req.getContent
  /\ last.resp.type = CredentialTypeSsh
  /\ \E c \in remote :
       /\ c.passphrase # ""
       /\ <<"private_key", c.privateKey>> \in last.resp.content
       /\ <<"passphrase", "">> \in last.resp.content

====
